---- MODULE Spec2Model ----
(***************************************************************************)
(* A model of pngme's chunk core: ChunkType (chunk_type.rs) and Chunk      *)
(* (chunk.rs).  Bytes are naturals in 0..255, a [u8; 4] / Vec<u8> / &str   *)
(* is a sequence of bytes (1-based here, 0-based in the source).  A u32 is *)
(* kept as two 16-bit limbs [hi, lo] (value hi * 65536 + lo) so that the   *)
(* whole 32-bit range is representable.                                    *)
(***************************************************************************)
EXTENDS Naturals, Sequences, FiniteSets

\* ------------------------------------------------------------ bounds ----
\* longest payload handed to Chunk::new
MaxDataLen == 2
\* longest string handed to ChunkType::from_str
MaxStrLen == 5
\* longest raw (caller-made) buffer handed to Chunk::try_from
MaxRawLen == 3
\* most bytes that follow a serialized chunk in the caller's buffer
MaxExtra == 1

\* bytes the type-code inputs are drawn from: the ends of both letter
\* ranges (A Z a z) and their outer neighbours (@ [ ` {)
TypeBytes == {64, 65, 90, 91, 96, 97, 122, 123}
\* bytes the payloads are drawn from
DataBytes == {0, 255}
\* bytes a caller overwrites a buffer position with, or appends
TamperBytes == {0, 1, 97, 128}

\* ------------------------------------------------------- results --------
Ok(v) == [tag |-> "Ok", val |-> v, err |-> ""]
Err(e) == [tag |-> "Err", val |-> <<>>, err |-> e]
\* Result::unwrap() on an Err value: the thread panics, nothing is returned
Panic(at) == [tag |-> "Panic", val |-> <<>>, err |-> at]
None == [tag |-> "None", val |-> <<>>, err |-> ""]

ErrTooShort == "Given vector is too short"
ErrCrc == "Given CRC does not match with computed crc"
ErrArrInvalid == "Invalid chunk when converting from array"
ErrStrLen == "The chunk lenght is not 4 bytes"
ErrStrInvalid == "Invalid chunk when converting from string literal"

\* ------------------------------------------------------- bits, u32 ------
RECURSIVE XorN(_, _, _)
\* a ^ b on n-bit operands
XorN(a, b, n) ==
    IF n = 0 THEN 0
    ELSE ((a + b) % 2) + 2 * XorN(a \div 2, b \div 2, n - 1)

U32(h, l) == [hi |-> h, lo |-> l]
\* usize -> u32 (try_into), defined for n < 2^31 here
U32FromNat(n) == U32(n \div 65536, n % 65536)
\* u32 as usize; used only where the value is known to be small
U32ToNat(u) == u.hi * 65536 + u.lo
U32Le(a, b) == a.hi < b.hi \/ (a.hi = b.hi /\ a.lo <= b.lo)
\* a ^ b on bytes, tabulated
Xor8 == [a \in 0..255 |-> [b \in 0..255 |-> XorN(a, b, 8)]]
\* a ^ b on 16-bit limbs
Xor16(a, b) == Xor8[a \div 256][b \div 256] * 256 + Xor8[a % 256][b % 256]
U32Xor(a, b) == U32(Xor16(a.hi, b.hi), Xor16(a.lo, b.lo))
\* u >> n for n in 1..15
U32Shr(u, p) == U32(u.hi \div p, (u.hi % p) * (65536 \div p) + u.lo \div p)

\* u32::to_be_bytes
to_be_bytes(u) == <<u.hi \div 256, u.hi % 256, u.lo \div 256, u.lo % 256>>
\* u32::from_be_bytes
from_le_bytes(b) == U32(b[4] * 256 + b[3], b[2] * 256 + b[1])
from_be_bytes(b) == U32(b[1] * 256 + b[2], b[3] * 256 + b[4])

\* ------------------------------------------------------- CRC-32 ---------
\* crc::CRC_32_ISO_HDLC: reflected, poly 0xEDB88320, init and xorout 0xFFFFFFFF
CrcPoly == U32(60856, 33568)
CrcInit == U32(65535, 65535)

RECURSIVE CrcShift(_, _)
\* k rounds of: if c & 1 then (c >> 1) ^ poly else c >> 1
CrcShift(c, k) ==
    IF k = 0 THEN c
    ELSE CrcShift(IF c.lo % 2 = 1 THEN U32Xor(U32Shr(c, 2), CrcPoly)
                                ELSE U32Shr(c, 2), k - 1)

CrcTable == [i \in 0..255 |-> CrcShift(U32(0, i), 8)]

\* one byte folded into the running crc
CrcUpdate(c, byte) ==
    U32Xor(CrcTable[Xor8[c.lo % 256][byte]], U32Shr(c, 256))

RECURSIVE CrcFold(_, _, _)
CrcFold(c, bytes, i) ==
    IF i > Len(bytes) THEN c ELSE CrcFold(CrcUpdate(c, bytes[i]), bytes, i + 1)

\* ISO.checksum(bytes)
checksum(bytes) == U32Xor(CrcFold(CrcInit, bytes, 1), CrcInit)

\* ------------------------------------------------------- ChunkType ------
\* byte >> n
Shr(byte, n) == byte \div (2 ^ n)
\* x & 1
And1(x) == x % 2

\* ChunkType::is_critical
is_critical_shift4(t) == And1(Shr(t.data[1], 4)) = 0
is_critical(t) == And1(Shr(t.data[1], 5)) = 0
\* ChunkType::is_public
is_public(t) == And1(Shr(t.data[2], 5)) = 0
\* ChunkType::is_reserved_bit_valid
is_reserved_bit_valid(t) == And1(Shr(t.data[3], 5)) = 0
\* ChunkType::is_safe_to_copy
is_safe_to_copy(t) == And1(Shr(t.data[4], 5)) = 1

\* ChunkType::is_valid_byte
is_valid_byte(byte) == (65 <= byte /\ byte <= 90) \/ (97 <= byte /\ byte <= 122)

\* ChunkType::is_valid
is_valid_letters_only(t) == \A i \in 1..4 : is_valid_byte(t.data[i])
is_valid(t) ==
    IF is_reserved_bit_valid(t) = FALSE THEN FALSE
    ELSE \A i \in 1..4 : is_valid_byte(t.data[i])

\* ChunkType::bytes
type_bytes(t) == t.data

\* impl TryFrom<[u8; 4]> for ChunkType
ChunkType_try_from(arr) ==
    LET possible_chunk == [data |-> arr]
    IN  IF is_valid(possible_chunk) THEN Ok(possible_chunk) ELSE Err(ErrArrInvalid)

RECURSIVE from_str_loop(_, _, _)
\* the for loop of from_str: copies s into arr until a byte is not a letter
from_str_loop(s, arr, i) ==
    IF i > Len(s) THEN Ok([data |-> arr])
    ELSE IF is_valid_byte(s[i]) THEN from_str_loop(s, [arr EXCEPT ![i] = s[i]], i + 1)
    ELSE Err(ErrStrInvalid)

\* impl FromStr for ChunkType
ChunkType_from_str_strict(s) ==
    IF Len(s) # 4 THEN Err(ErrStrLen)
    ELSE IF is_valid([data |-> s]) THEN Ok([data |-> s]) ELSE Err(ErrStrInvalid)
ChunkType_from_str(s) ==
    IF Len(s) # 4 THEN Err(ErrStrLen)
    ELSE from_str_loop(s, <<0, 0, 0, 0>>, 1)

\* ------------------------------------------------------- Chunk ----------
\* Chunk::new
Chunk_new(chunk_type, data) == [chunk_type |-> chunk_type, chunk_data |-> data]
\* Chunk::data
data(c) == c.chunk_data
\* Chunk::length
length(c) == U32FromNat(Len(data(c)))
\* Chunk::crc
crc(c) == checksum(type_bytes(c.chunk_type) \o data(c))
\* Chunk::as_bytes
as_bytes_type_first(c) ==
    type_bytes(c.chunk_type) \o to_be_bytes(length(c)) \o data(c) \o to_be_bytes(crc(c))
as_bytes(c) ==
    to_be_bytes(length(c)) \o type_bytes(c.chunk_type) \o data(c) \o to_be_bytes(crc(c))

\* the guard of Chunk::try_from
too_short_11(bytes) == Len(bytes) < 11
too_short(bytes) == Len(bytes) < 12

\* reader.read_exact(&mut buf) with buf.len() = n (a u32), the reader having
\* consumed pos bytes: Err(UnexpectedEof) when fewer than n bytes are left.
\* (For the payload, buf is vec!(0; data_length); should that allocation fail
\* the process aborts, which like the panic returns nothing to the caller.)
read_exact(bytes, pos, n) ==
    IF U32Le(n, U32FromNat(Len(bytes) - pos))
    THEN Ok(SubSeq(bytes, pos + 1, pos + U32ToNat(n)))
    ELSE Err("UnexpectedEof")

Four == U32(0, 4)

\* where the reader stands once the n payload bytes are consumed
pos_after_data_last4(bytes, n) == Len(bytes) - 4
pos_after_data(bytes, n) == 8 + n

\* the comparison that ends Chunk::try_from
crc_check_unchecked(possible_chunk, given) == Ok(possible_chunk)
crc_check(possible_chunk, given) ==
    IF crc(possible_chunk) = given THEN Ok(possible_chunk) ELSE Err(ErrCrc)

\* impl TryFrom<&[u8]> for Chunk
Chunk_try_from(bytes) ==
    IF too_short(bytes) THEN Err(ErrTooShort)
    ELSE
    LET r1 == read_exact(bytes, 0, Four)
        data_length == from_be_bytes(r1.val)
        r2 == read_exact(bytes, 4, Four)
        t == ChunkType_try_from(r2.val)
        r3 == read_exact(bytes, 8, data_length)
        r4 == read_exact(bytes, pos_after_data(bytes, Len(r3.val)), Four)
    IN  IF r1.tag # "Ok" THEN Panic("chunk.rs:88")
        ELSE IF r2.tag # "Ok" THEN Panic("chunk.rs:91")
        ELSE IF t.tag # "Ok" THEN Panic("chunk.rs:92")
        ELSE IF r3.tag # "Ok" THEN Panic("chunk.rs:98")
        ELSE IF r4.tag # "Ok" THEN Panic("chunk.rs:101")
        ELSE crc_check(Chunk_new(t.val, r3.val), from_be_bytes(r4.val))

\* ------------------------------------------------------- inputs ---------
SeqsUpTo(S, n) == UNION {[1..k -> S] : k \in 0..n}
Arrays == [1..4 -> TypeBytes]
Strings == SeqsUpTo(TypeBytes, MaxStrLen)
Payloads == SeqsUpTo(DataBytes, MaxDataLen)
RawBuffers == SeqsUpTo(TamperBytes, MaxRawLen)
Extras == SeqsUpTo(TamperBytes, MaxExtra) \ {<<>>}

NoChunk == Chunk_new([data |-> <<>>], <<>>)
NoProps == [critical |-> FALSE, public |-> FALSE, reserved_bit_valid |-> FALSE,
            safe_to_copy |-> FALSE, valid |-> FALSE]

\* ------------------------------------------------------- state ----------
VARIABLES
    pc,      \* the operation that ran last
    input,   \* the array or string last handed to a ChunkType constructor
    ct,      \* what that constructor returned
    props,   \* the five predicates of the constructed ChunkType
    chunk,   \* the Chunk built by Chunk::new
    bytes,   \* the buffer: as_bytes' output, possibly altered by the caller
    origin,  \* where bytes comes from: "as_bytes", "altered", "extended", "raw"
    parsed   \* what Chunk::try_from returned (or that it panicked)

vars == <<pc, input, ct, props, chunk, bytes, origin, parsed>>

Init ==
    /\ pc = "idle"
    /\ input = <<>>
    /\ ct = None
    /\ props = NoProps
    /\ chunk = NoChunk
    /\ bytes = <<>>
    /\ origin = "none"
    /\ parsed = None

\* ChunkType::try_from(arr)
TypeTryFrom ==
    /\ pc = "idle"
    /\ \E arr \in Arrays :
        /\ input' = arr
        /\ ct' = ChunkType_try_from(arr)
    /\ pc' = "type_try_from"
    /\ UNCHANGED <<props, chunk, bytes, origin, parsed>>

\* ChunkType::from_str(s)
TypeFromStr ==
    /\ pc = "idle"
    /\ \E s \in Strings :
        /\ input' = s
        /\ ct' = ChunkType_from_str(s)
    /\ pc' = "type_from_str"
    /\ UNCHANGED <<props, chunk, bytes, origin, parsed>>

\* the caller reads the predicates of the ChunkType it constructed
Classify ==
    /\ pc \in {"type_try_from", "type_from_str"}
    /\ ct.tag = "Ok"
    /\ props' = [critical |-> is_critical(ct.val),
                 public |-> is_public(ct.val),
                 reserved_bit_valid |-> is_reserved_bit_valid(ct.val),
                 safe_to_copy |-> is_safe_to_copy(ct.val),
                 valid |-> is_valid(ct.val)]
    /\ pc' = "classified"
    /\ UNCHANGED <<input, ct, chunk, bytes, origin, parsed>>

\* Chunk::new(chunk_type, data) with the ChunkType just constructed
ChunkNew ==
    /\ pc \in {"type_try_from", "type_from_str"}
    /\ ct.tag = "Ok"
    /\ \E d \in Payloads : chunk' = Chunk_new(ct.val, d)
    /\ pc' = "new"
    /\ input' = <<>>
    /\ ct' = None
    /\ UNCHANGED <<props, bytes, origin, parsed>>

\* chunk.as_bytes()
AsBytes ==
    /\ pc = "new"
    /\ bytes' = as_bytes(chunk)
    /\ origin' = "as_bytes"
    /\ pc' = "as_bytes"
    /\ UNCHANGED <<input, ct, props, chunk, parsed>>

\* the caller overwrites one byte of the serialized chunk
Overwrite ==
    /\ pc = "as_bytes"
    /\ \E i \in 1..Len(bytes), b \in TamperBytes : bytes' = [bytes EXCEPT ![i] = b]
    /\ origin' = "altered"
    /\ pc' = "buffer"
    /\ UNCHANGED <<input, ct, props, chunk, parsed>>

\* the caller hands over only a prefix of the serialized chunk
Truncate ==
    /\ pc = "as_bytes"
    /\ \E n \in 0..(Len(bytes) - 1) : bytes' = SubSeq(bytes, 1, n)
    /\ origin' = "altered"
    /\ pc' = "buffer"
    /\ UNCHANGED <<input, ct, props, chunk, parsed>>

\* the serialized chunk is followed by more bytes in the caller's buffer
Extend ==
    /\ pc = "as_bytes"
    /\ \E x \in Extras : bytes' = bytes \o x
    /\ origin' = "extended"
    /\ pc' = "buffer"
    /\ UNCHANGED <<input, ct, props, chunk, parsed>>

\* the caller makes a buffer of its own
Raw ==
    /\ pc = "idle"
    /\ \E b \in RawBuffers : bytes' = b
    /\ origin' = "raw"
    /\ pc' = "buffer"
    /\ UNCHANGED <<input, ct, props, chunk, parsed>>

\* Chunk::try_from(bytes)
Parse ==
    /\ pc \in {"as_bytes", "buffer"}
    /\ parsed' = Chunk_try_from(bytes)
    /\ pc' = "try_from"
    /\ UNCHANGED <<input, ct, props, chunk, bytes, origin>>

Next ==
    \/ TypeTryFrom
    \/ TypeFromStr
    \/ Classify
    \/ ChunkNew
    \/ AsBytes
    \/ Overwrite
    \/ Truncate
    \/ Extend
    \/ Raw
    \/ Parse

Spec == Init /\ [][Next]_vars

\* ------------------------------------------------------- properties -----
Letter(b) == b \in (65..90) \cup (97..122)
\* bit 5 (bit 0 = least significant) of b is 0
Bit5Clear(b) == b % 64 < 32
\* the array-constructor rules, on four bytes
ArrayRules(a) == (\A i \in 1..4 : Letter(a[i])) /\ Bit5Clear(a[3])
\* the fields of a buffer of at least 12 bytes, by offset
LenField(b) == SubSeq(b, 1, 4)
TypeField(b) == SubSeq(b, 5, 8)
\* the length field does not exceed what is left for the payload after the
\* 12 fixed bytes
Fits(b) == U32Le(from_be_bytes(LenField(b)), U32FromNat(Len(b) - 12))
Declared(b) == U32ToNat(from_be_bytes(LenField(b)))
RoundTrips ==
    /\ parsed.tag = "Ok"
    /\ parsed.val.chunk_type = chunk.chunk_type
    /\ parsed.val.chunk_data = chunk.chunk_data
    /\ crc(parsed.val) = crc(chunk)

C2_TruncatedReturnsErr ==
    (pc = "try_from" /\ Len(bytes) >= 12 /\ ~Fits(bytes)) => parsed.tag = "Err"

\* C3: a buffer of at least 12 bytes whose bytes 4..8 break the
\* array-constructor rules makes try_from return an error value, no chunk
C3_InvalidTypeReturnsErr ==
    (pc = "try_from" /\ Len(bytes) >= 12 /\ ~ArrayRules(TypeField(bytes)))
        => parsed.tag = "Err"

\* C4: on a buffer well-formed in length and type, try_from returns Ok with
\* the type and payload read iff the CRC after the payload equals the CRC of
\* type + payload; otherwise the CRC error and no chunk
C4_OkIffCrcMatches ==
    (pc = "try_from" /\ Len(bytes) >= 12 /\ ArrayRules(TypeField(bytes)) /\ Fits(bytes))
        => LET L == Declared(bytes)
               embedded == SubSeq(bytes, 9 + L, 12 + L)
               computed == checksum(SubSeq(bytes, 5, 8 + L))
           IN  IF embedded = to_be_bytes(computed)
               THEN /\ parsed.tag = "Ok"
                    /\ parsed.val.chunk_type.data = TypeField(bytes)
                    /\ parsed.val.chunk_data = SubSeq(bytes, 9, 8 + L)
               ELSE parsed = Err(ErrCrc)

C4_Witness ==
    /\ pc = "try_from" /\ origin = "altered"
    /\ Len(bytes) = 13 /\ ArrayRules(TypeField(bytes)) /\ Fits(bytes)
    /\ bytes[13] # as_bytes(chunk)[13]
    /\ parsed = Err(ErrCrc)

\* C5: every buffer of fewer than 12 bytes gets the too-short error
C5_ShortIsTooShort ==
    (pc = "try_from" /\ Len(bytes) < 12) => parsed = Err(ErrTooShort)

C5_Witness ==
    pc = "try_from" /\ Len(bytes) = 11 /\ parsed = Err(ErrTooShort)

\* C6: as_bytes() is 12 + L bytes: L big-endian, the type bytes, the payload,
\* then the big-endian CRC of bytes [4, 8 + L) of the output
C6_Layout ==
    (pc = "as_bytes") =>
        LET L == Len(chunk.chunk_data)
            c == checksum(SubSeq(bytes, 5, 8 + L))
        IN  /\ Len(bytes) = 12 + L
            /\ bytes[1] = 0
            /\ (bytes[2] * 256 + bytes[3]) * 256 + bytes[4] = L
            /\ SubSeq(bytes, 5, 8) = chunk.chunk_type.data
            /\ SubSeq(bytes, 9, 8 + L) = chunk.chunk_data
            /\ bytes[9 + L] * 256 + bytes[10 + L] = c.hi
            /\ bytes[11 + L] * 256 + bytes[12 + L] = c.lo
            /\ crc(chunk) = c

C6_Witness ==
    /\ pc = "as_bytes"
    /\ chunk.chunk_data = <<0, 255>>
    /\ SubSeq(bytes, 1, 10) = <<0, 0, 0, 2, 65, 97, 90, 122, 0, 255>>

\* C7: the array constructor returns Ok, with the same bytes, iff all four
\* bytes are letters and bit 5 of the third is 0, and the invalid-type error
\* otherwise; what it returns satisfies is_valid()
C7_ArrayConstructor ==
    (pc = "type_try_from") =>
        IF ArrayRules(input)
        THEN ct.tag = "Ok" /\ type_bytes(ct.val) = input /\ is_valid(ct.val)
        ELSE ct = Err(ErrArrInvalid)

C7_Witness ==
    pc = "type_try_from" /\ input = <<65, 122, 90, 97>> /\ ct.tag = "Ok"

C9_Predicates ==
    (pc = "classified") =>
        /\ props.critical <=> Bit5Clear(ct.val.data[1])
        /\ props.public <=> Bit5Clear(ct.val.data[2])
        /\ props.reserved_bit_valid <=> Bit5Clear(ct.val.data[3])
        /\ props.safe_to_copy <=> ~Bit5Clear(ct.val.data[4])

C9_Witness ==
    /\ pc = "classified"
    /\ ct.val.data = <<90, 97, 65, 122>>
    /\ props.critical /\ ~props.public /\ props.reserved_bit_valid /\ props.safe_to_copy

\* C10: a serialized chunk that parses, followed by more bytes, parses to
\* the same type and payload: the CRC is read right after the payload and
\* the bytes past it are ignored
C10_TrailingIgnored ==
    (pc = "try_from" /\ origin = "extended"
        /\ ArrayRules(chunk.chunk_type.data))
        => /\ Len(bytes) > 12 + Len(chunk.chunk_data)
           /\ parsed.tag = "Ok"
           /\ parsed.val.chunk_type = chunk.chunk_type
           /\ parsed.val.chunk_data = chunk.chunk_data

C10_Witness ==
    /\ pc = "try_from" /\ origin = "extended"
    /\ Len(bytes) = 14
    /\ chunk.chunk_data = <<0>>
    /\ parsed.tag = "Ok"
====
